---- MODULE Spec2Model ----
(***************************************************************************)
(* Model of the voice relay of revolt-gemini-bot.                          *)
(*                                                                         *)
(*   RelaySpec     one relay session of the server part of                 *)
(*                 src/frontend/input-processor.js (lines 24-308): the     *)
(*                 client message handlers, the upstream callbacks, the    *)
(*                 reconnection controller, the idle timer and cleanup.    *)
(*                 Every await of the code is a point where the handler    *)
(*                 is suspended and any other handler may run.             *)
(*   PlaybackSpec  the playback scheduler of src/frontend/app.js           *)
(*                 (queueAudio, stopAllAudio and the "ended" listener).    *)
(***************************************************************************)
EXTENDS Integers, Sequences, FiniteSets, TLC

\* ------------------------------------------------------------- bounds
\* client frames received by one relay session
MaxFrames == 2
\* upstream connections one relay session starts
MaxConns == 3
\* upstream onmessage callbacks in one relay session
MaxMsgs == 2
\* the largest step of the relay's clock, in ms
TickMs == 45000
\* buffer sources one page starts
MaxChunks == 3
\* the playback clock stops at this many sample frames
MaxClock == 3
\* audio contexts one page creates
MaxContexts == 1
\* buffer sources started while the page's session is followed
MaxPageChunks == 1
\* transport channels one page opens
MaxSockets == 3

\* -------------------------------------------------- program constants
SESSION_IDLE_MS == 90000
MAX_RECONNECT_ATTEMPTS == 3
\* the delay of the page's reconnect after an abnormal closure, in ms
RECONNECT_MS == 1000

\* ---------------------------------------------------- relay state
VARIABLES
  isActive,           \* sessionState.isActive
  geminiSession,      \* sessionState.geminiSession: 0 is null, else an index of conn
  isAISpeaking,       \* sessionState.isAISpeaking
  idleTimer,          \* sessionState.idleTimer: {} no pending timer, {ms} ms left
  reconnectAttempts,  \* let reconnectAttempts
  clientWS,           \* clientWS.readyState
  inbound,            \* the client socket still delivers "message" events
  conn,               \* the upstream connections started, in order:
                      \*   st: connecting | open | closing | closed
                      \*   by: the frame whose handler awaits it, 0 a reconnect timer
  frames,             \* the client frames received, in order, each with its
                      \*   handler's position (pc), whether its handler found
                      \*   the session speaking (barge), with the channel's
                      \*   state then (chan), and what the handler did, in
                      \*   order (did)
  timers,             \* pending setTimeout callbacks of attemptReconnect
  msgs,               \* upstream onmessage callbacks run so far
  wire,               \* what the last step sent, in order: to the client and
                      \*   upstream
  notices,            \* how many "Connection lost" errors and session_timeout
                      \*   messages the client was sent so far
  closeCalls,         \* close codes of the clientWS.close() calls, in order
  fx,                 \* how often each effect of cleanupSession was executed
  retries,            \* reopen attempts started since the last successful reopen
  sinceFrame,         \* ms since the last processed frame (or the session's start)
  sinceTraffic        \* ms since the last processed frame or upstream-ready
                      \*   callback (or the session's start)

relayVars == <<isActive, geminiSession, isAISpeaking, idleTimer, reconnectAttempts,
               clientWS, inbound, conn, frames, timers, msgs, wire,
               notices, closeCalls, fx, retries, sinceFrame, sinceTraffic>>

\* ------------------------------------------------- playback state
VARIABLES
  audioContext,       \* this.audioContext as the code sees it: "null" | "running"
  currentTime,        \* currentTime of the newest audio context, in sample frames
  nextStartTime,      \* this.nextStartTime, in sample frames
  activeSources,      \* this.activeSources: indexes of sources
  sources,            \* every buffer source started, in order
  cursor,             \* where nextStartTime comes from: "reset" by the constructor or
                      \* stopAllAudio, "chained" to the source started last, "raised"
                      \* to the clock by a queueAudio that started nothing after a reset
  ctx,                \* number of audio contexts created so far
  live,               \* the audio contexts that are not closed
  closing,            \* the audio contexts whose close() is pending
  started             \* state.isStarting or state.isActive

playVars == <<audioContext, currentTime, nextStartTime, activeSources, sources,
              cursor, ctx, live, closing, started>>

\* ----------------------------------------------------- page state
VARIABLES
  state,              \* this.state: isActive, isLoading, isStarting, audioStreamEnded
  webSocket,          \* this.webSocket: 0 is null, else an index of sockets
  sockets,            \* the WebSocket objects created, in order:
                      \*   st: CONNECTING | OPEN | CLOSING | CLOSED
                      \*   awaited: startSession awaits the promise of its initWebSocket
                      \*   settled: that promise was resolved or rejected
                      \*   want: the code of the page's own close() call, 0 if none
  reconnectTimers,    \* delays of the pending setTimeout callbacks of onclose
  localStream,        \* this.localStream: "null" | "live"
  inputNode,          \* this.inputNode: "null" | "connected"
  mediaStreamSource,  \* this.mediaStreamSource: "null" | "connected"
  pc,                 \* where startSession is in initAudioPipeline:
                      \*   idle | media | module
  lastFrame,          \* the last frame a message event delivered: the socket
                      \*   it came on (0: none yet) and what it was: none |
                      \*   binary | the type of a text frame
  userEnded           \* the last step of the page called endSession

pageVars == <<state, webSocket, sockets, reconnectTimers, localStream, inputNode,
              mediaStreamSource, pc, lastFrame, userEnded>>

vars == <<relayVars, playVars, pageVars>>

\* The relay session as one record, so that the code's functions are
\* operators from state to state. A step starts with nothing sent.
State ==
  [isActive |-> isActive, geminiSession |-> geminiSession,
   isAISpeaking |-> isAISpeaking, idleTimer |-> idleTimer,
   reconnectAttempts |-> reconnectAttempts, clientWS |-> clientWS,
   inbound |-> inbound, conn |-> conn, frames |-> frames,
   timers |-> timers, msgs |-> msgs, wire |-> <<>>, notices |-> notices,
   closeCalls |-> closeCalls,
   fx |-> fx, retries |-> retries, sinceFrame |-> sinceFrame,
   sinceTraffic |-> sinceTraffic]

Commit(s) ==
  /\ isActive' = s.isActive
  /\ geminiSession' = s.geminiSession
  /\ isAISpeaking' = s.isAISpeaking
  /\ idleTimer' = s.idleTimer
  /\ reconnectAttempts' = s.reconnectAttempts
  /\ clientWS' = s.clientWS
  /\ inbound' = s.inbound
  /\ conn' = s.conn
  /\ frames' = s.frames
  /\ timers' = s.timers
  /\ msgs' = s.msgs
  /\ wire' = s.wire
  /\ notices' = s.notices
  /\ closeCalls' = s.closeCalls
  /\ fx' = s.fx
  /\ retries' = s.retries
  /\ sinceFrame' = s.sinceFrame
  /\ sinceTraffic' = s.sinceTraffic
  /\ UNCHANGED <<playVars, pageVars>>

RelayInit ==
  /\ isActive = TRUE
  /\ geminiSession = 0
  /\ isAISpeaking = FALSE
  /\ idleTimer = {SESSION_IDLE_MS}
  /\ reconnectAttempts = 0
  /\ clientWS = "OPEN"
  /\ inbound = TRUE
  /\ conn = <<>>
  /\ frames = <<>>
  /\ timers = 0
  /\ msgs = 0
  /\ wire = <<>>
  /\ notices = [lost |-> 0, timeout |-> 0]
  /\ closeCalls = <<>>
  /\ fx = [cancel |-> 0, upstream |-> 0, client |-> 0]
  /\ retries = 0
  /\ sinceFrame = 0
  /\ sinceTraffic = 0

PlayInit ==
  /\ audioContext = "null"
  /\ currentTime = 0
  /\ nextStartTime = 0
  /\ activeSources = {}
  /\ sources = <<>>
  /\ cursor = "reset"
  /\ ctx = 0
  /\ live = {}
  /\ closing = {}
  /\ started = FALSE

PageInit ==
  /\ state = [isActive |-> FALSE, isLoading |-> FALSE, isStarting |-> FALSE,
              audioStreamEnded |-> FALSE]
  /\ webSocket = 0
  /\ sockets = <<>>
  /\ reconnectTimers = <<>>
  /\ localStream = "null"
  /\ inputNode = "null"
  /\ mediaStreamSource = "null"
  /\ pc = "idle"
  /\ lastFrame = [socket |-> 0, what |-> "none"]
  /\ userEnded = FALSE

Init == RelayInit /\ PlayInit /\ PageInit

\* ------------------------------------------------------------ helpers
Min(a, b) == IF a < b THEN a ELSE b
Max(a, b) == IF a > b THEN a ELSE b

\* Buffer.toString("base64") on a buffer of at most three bytes, as the
\* sequence of its characters' values (0..63, 64 for the padding "=").
B64Encode(bytes) ==
  IF Len(bytes) = 0 THEN <<>>
  ELSE IF Len(bytes) = 1
    THEN <<bytes[1] \div 4, (bytes[1] % 4) * 16, 64, 64>>
  ELSE IF Len(bytes) = 2
    THEN <<bytes[1] \div 4, (bytes[1] % 4) * 16 + bytes[2] \div 16,
           (bytes[2] % 16) * 4, 64>>
  ELSE <<bytes[1] \div 4, (bytes[1] % 4) * 16 + bytes[2] \div 16,
         (bytes[2] % 16) * 4 + bytes[3] \div 64, bytes[3] % 64>>

\* Buffer.from(text, "base64") on a text of at most four characters: decoding
\* stops at the padding, and a lone character yields no byte.
B64Decode(chars) ==
  LET c == SelectSeq(chars, LAMBDA x : x < 64)
  IN IF Len(c) < 2 THEN <<>>
     ELSE IF Len(c) = 2 THEN <<c[1] * 4 + c[2] \div 16>>
     ELSE IF Len(c) = 3
       THEN <<c[1] * 4 + c[2] \div 16, (c[2] % 16) * 16 + c[3] \div 4>>
     ELSE <<c[1] * 4 + c[2] \div 16, (c[2] % 16) * 16 + c[3] \div 4,
            (c[3] % 4) * 64 + c[4]>>

\* One entry of wire.
Bin(bytes, f) ==
  [to |-> "client", kind |-> "binary", type |-> "", message |-> "",
   data |-> bytes, by |-> f, conn |-> 0]
Json(type, message, f) ==
  [to |-> "client", kind |-> "json", type |-> type, message |-> message,
   data |-> <<>>, by |-> f, conn |-> 0]
Realtime(type, data, f, c) ==
  [to |-> "upstream", kind |-> "realtimeInput", type |-> type, message |-> "",
   data |-> data, by |-> f, conn |-> c]

\* ----------------------------------------- the relay's functions
LostText == "Connection lost. Please refresh."

\* A message goes out: it is on the wire, its handler (if a client frame's)
\* has it in its record, and the notices are counted.
Put(s, m) ==
  LET s1 == [s EXCEPT !.wire = Append(@, m)]
      s2 == IF m.by = 0 THEN s1
            ELSE [s1 EXCEPT !.frames[m.by].did =
                    Append(@, IF m.kind = "binary" THEN "0x03" ELSE m.type)]
  IN IF m.message = LostText THEN [s2 EXCEPT !.notices.lost = @ + 1]
     ELSE IF m.type = "session_timeout"
       THEN [s2 EXCEPT !.notices.timeout = @ + 1]
     ELSE s2

\* safeSend: sends only on an open client channel.
safeSend(s, m) == IF s.clientWS = "OPEN" THEN Put(s, m) ELSE s

\* resetIdleTimer without its clearTimeout: a timer already pending still
\* fires at its own deadline.
resetIdleTimerStale(s) ==
  IF s.idleTimer = {} THEN [s EXCEPT !.idleTimer = {SESSION_IDLE_MS}] ELSE s

\* resetIdleTimer: clearTimeout, then a timer of a full window.
resetIdleTimer(s) == [s EXCEPT !.idleTimer = {SESSION_IDLE_MS}]

\* geminiSession.close(): an open connection starts closing, its onclose
\* callback follows; closing a closed connection does nothing.
closeUpstream(s, c) ==
  IF s.conn[c].st = "open" THEN [s EXCEPT !.conn[c].st = "closing"] ELSE s

\* cleanupSession without its isActive guard
cleanupUnguarded(s) ==
  LET s1 == [s EXCEPT !.isActive = FALSE, !.idleTimer = {},
                      !.fx.cancel = @ + 1]
      s2 == IF s1.geminiSession # 0
            THEN [closeUpstream(s1, s1.geminiSession)
                    EXCEPT !.geminiSession = 0, !.fx.upstream = @ + 1]
            ELSE s1
  IN IF s2.clientWS = "OPEN"
     THEN [s2 EXCEPT !.clientWS = "CLOSING",
                     !.closeCalls = Append(@, 1000), !.fx.client = @ + 1]
     ELSE s2

\* cleanupSession
cleanupSession(s) ==
  IF ~s.isActive THEN s
  ELSE
    LET s1 == [s EXCEPT !.isActive = FALSE, !.idleTimer = {},
                        !.fx.cancel = @ + 1]
        s2 == IF s1.geminiSession # 0
              THEN [closeUpstream(s1, s1.geminiSession)
                      EXCEPT !.geminiSession = 0, !.fx.upstream = @ + 1]
              ELSE s1
    IN IF s2.clientWS = "OPEN"
       THEN [s2 EXCEPT !.clientWS = "CLOSING",
                       !.closeCalls = Append(@, 1000), !.fx.client = @ + 1]
       ELSE s2

\* handleGeminiAudio
handleGeminiAudio(s, audioData) ==
  LET pcmBytes == B64Decode(audioData)
  IN IF Len(pcmBytes) = 0 THEN s
     ELSE safeSend(s, Bin(<<1>> \o pcmBytes, 0))

\* attemptReconnect, up to the setTimeout
attemptReconnect(s) ==
  IF s.reconnectAttempts >= MAX_RECONNECT_ATTEMPTS
  THEN safeSend(s, Json("error", LostText, 0))
  ELSE [s EXCEPT !.reconnectAttempts = @ + 1, !.timers = @ + 1]

\* openGeminiSession returns the session it holds when that is open ...
HoldsOpen(s) ==
  s.geminiSession # 0 /\ s.conn[s.geminiSession].st = "open"

\* ... and otherwise closes the previous session and starts a connection,
\* which `by` awaits.
openGeminiSession(s, by) ==
  IF HoldsOpen(s) THEN s
  ELSE
    LET s1 == IF s.geminiSession # 0 THEN closeUpstream(s, s.geminiSession)
              ELSE s
    IN [s1 EXCEPT !.conn = Append(@, [st |-> "connecting", by |-> by])]

\* geminiSession.sendRealtimeInput: a TypeError on null; on a connection that
\* is not open the call either throws or returns with the input dropped
\* (lenient).
sendRealtimeInput(s, type, data, f, lenient) ==
  IF s.geminiSession = 0 THEN [s |-> s, ok |-> FALSE]
  ELSE IF s.conn[s.geminiSession].st = "open"
    THEN [s |-> Put(s, Realtime(type, data, f, s.geminiSession)), ok |-> TRUE]
  ELSE IF lenient
    THEN [s |-> [s EXCEPT !.frames[f].did = Append(@, type)], ok |-> TRUE]
  ELSE [s |-> s, ok |-> FALSE]

\* processAudioInput: the catch block
audioError(s, f) ==
  [safeSend(s, Json("error", "Error processing audio", f))
     EXCEPT !.frames[f].pc = "done"]

\* processAudioInput: forwarding the frame's audio (lines 243-248)
forwardAudio(s, f, lenient) ==
  LET r == sendRealtimeInput(s, "audio", B64Encode(s.frames[f].data), f, lenient)
  IN IF r.ok THEN [r.s EXCEPT !.frames[f].pc = "done"]
     ELSE audioError(r.s, f)

\* the barge-in branch without its 0x03 frame
checkSpeakingSilent(s, f, lenient) ==
  IF s.isAISpeaking
  THEN
    LET s1 == [s EXCEPT !.frames[f].barge = TRUE, !.frames[f].chan = s.clientWS]
        r == sendRealtimeInput(s1, "stop", <<>>, f, lenient)
    IN IF r.ok THEN [r.s EXCEPT !.frames[f].pc = "stop"]
       ELSE audioError(r.s, f)
  ELSE forwardAudio(s, f, lenient)

\* processAudioInput: the barge-in branch up to its await (lines 235-239)
checkSpeaking(s, f, lenient) ==
  IF s.isAISpeaking
  THEN
    LET s1 == safeSend([s EXCEPT !.frames[f].barge = TRUE,
                                 !.frames[f].chan = s.clientWS],
                       Bin(<<3>>, f))
        r == sendRealtimeInput(s1, "stop", <<>>, f, lenient)
    IN IF r.ok THEN [r.s EXCEPT !.frames[f].pc = "stop"]
       ELSE audioError(r.s, f)
  ELSE forwardAudio(s, f, lenient)

\* processAudioInput, up to its first await
processAudioInput(s, f, lenient) ==
  IF s.geminiSession = 0
  THEN [openGeminiSession(s, f) EXCEPT !.frames[f].pc = "open"]
  ELSE checkSpeaking(s, f, lenient)

\* an "interruption" branch that tells the client and not the service
interruptionNoStop(s, f, lenient) ==
  IF s.geminiSession # 0 THEN safeSend(s, Bin(<<3>>, f)) ELSE s

\* the "interruption" branch of the message handler, up to its await
interruption(s, f, lenient) ==
  IF s.geminiSession # 0
  THEN
    LET s1 == safeSend(s, Bin(<<3>>, f))
        r == sendRealtimeInput(s1, "stop", <<>>, f, lenient)
    IN IF r.ok THEN [r.s EXCEPT !.frames[f].pc = "stop"] ELSE r.s
  ELSE s

\* a message handler for which a frame it cannot parse ends the session
onClientMessageFatal(s, f, lenient) ==
  IF ~s.isActive THEN s
  ELSE
    LET s1 == resetIdleTimer(s)
    IN IF s.frames[f].kind = "audio" THEN processAudioInput(s1, f, lenient)
       ELSE IF s.frames[f].kind = "interruption" THEN interruption(s1, f, lenient)
       ELSE cleanupSession(s1)

\* clientWS.on("message"), up to its first await
onClientMessage(s, f, lenient) ==
  IF ~s.isActive THEN s
  ELSE
    LET s1 == resetIdleTimer(s)
    IN IF s.frames[f].kind = "audio" THEN processAudioInput(s1, f, lenient)
       ELSE IF s.frames[f].kind = "interruption" THEN interruption(s1, f, lenient)
       ELSE s1

\* the resumed handler forwarding the audio without leaving SPEAKING
afterStopStillSpeaking(s, f, lenient) ==
  LET s1 == [s EXCEPT !.frames[f].pc = "done"]
  IN IF s.frames[f].kind = "audio" THEN forwardAudio(s1, f, lenient) ELSE s1

\* the handler resumed after its await of the stop signal
afterStop(s, f, lenient) ==
  LET s1 == [s EXCEPT !.isAISpeaking = FALSE, !.frames[f].pc = "done",
                      !.frames[f].did = Append(@, "ready")]
  IN IF s.frames[f].kind = "audio" THEN forwardAudio(s1, f, lenient) ELSE s1

\* callbacks.onopen
onopen(s) ==
  resetIdleTimer(
    safeSend([s EXCEPT !.isAISpeaking = FALSE],
             Json("status", "AI session ready", 0)))

\* an onmessage that forwards turn-complete and stays SPEAKING
onmessageKeepSpeaking(s, msg) ==
  LET s1 == resetIdleTimer(s)
  IN IF msg.data # <<>>
     THEN handleGeminiAudio([s1 EXCEPT !.isAISpeaking = TRUE], msg.data)
     ELSE IF msg.turnComplete THEN safeSend(s1, Bin(<<2>>, 0))
     ELSE s1

\* callbacks.onmessage
onmessage(s, msg) ==
  LET s1 == resetIdleTimer(s)
  IN IF msg.data # <<>>
     THEN handleGeminiAudio([s1 EXCEPT !.isAISpeaking = TRUE], msg.data)
     ELSE IF msg.turnComplete
       THEN safeSend([s1 EXCEPT !.isAISpeaking = FALSE], Bin(<<2>>, 0))
     ELSE s1

\* callbacks.onerror
onerror(s) ==
  attemptReconnect(safeSend(s, Json("error", "AI service error", 0)))

\* callbacks.onclose
onclose(s) == attemptReconnect([s EXCEPT !.isAISpeaking = FALSE])

\* the setTimeout callback of attemptReconnect, up to its await
reconnectTimer(s) ==
  IF ~s.isActive THEN s
  ELSE IF HoldsOpen(s)
    THEN [s EXCEPT !.reconnectAttempts = 0, !.retries = 0]
  ELSE [openGeminiSession(s, 0) EXCEPT !.retries = @ + 1]

\* the idle timer's callback cleaning up before it notifies
idleTimeoutCleanupFirst(s) ==
  safeSend(cleanupSession(s),
           Json("session_timeout", "Session ended due to inactivity.", 0))

\* the idle timer's callback
idleTimeout(s) ==
  cleanupSession(
    safeSend(s, Json("session_timeout", "Session ended due to inactivity.", 0)))

\* ------------------------------------------------ the relay's steps
\* the payloads a client audio frame carries (16-bit PCM bytes)
ClientPayloads == {<<7, 1>>}

\* what an upstream onmessage callback carries: audio as base64 text (here
\* one that decodes to two bytes and one that decodes to none), or
\* turn-complete
UpstreamMessages ==
  { [data |-> <<0, 16, 8>>, turnComplete |-> FALSE],
    [data |-> <<5>>, turnComplete |-> FALSE],
    [data |-> <<>>, turnComplete |-> TRUE] }

Elapse(t, d) == Min(SESSION_IDLE_MS, t + d)

\* clientWS.on("message"): a client frame arrives and its handler runs up to
\* its first await
ClientMessage(kind, data, lenient) ==
  /\ inbound
  /\ Len(frames) < MaxFrames
  /\ (isActive /\ kind = "audio" /\ geminiSession = 0) => Len(conn) < MaxConns
  /\ LET f == Len(frames) + 1
         s == [State EXCEPT
                 !.frames = Append(@, [kind |-> kind, data |-> data, pc |-> "done",
                                       barge |-> FALSE, chan |-> "",
                                       did |-> <<>>]),
                 !.sinceFrame = 0, !.sinceTraffic = 0]
     IN Commit(IF isActive THEN onClientMessage(s, f, lenient)
               ELSE onClientMessage(State, f, lenient))

\* ai.live.connect resolves: onopen runs, openGeminiSession stores the
\* session and its caller goes on
ConnectResolve(c, lenient) ==
  /\ c \in 1..Len(conn)
  /\ conn[c].st = "connecting"
  /\ LET s1 == onopen([State EXCEPT !.conn[c].st = "open", !.sinceTraffic = 0])
         s2 == [s1 EXCEPT !.geminiSession = c]
     IN Commit(IF conn[c].by = 0
               THEN [s2 EXCEPT !.reconnectAttempts = 0, !.retries = 0]
               ELSE checkSpeaking(s2, conn[c].by, lenient))

\* ai.live.connect rejects: openGeminiSession rethrows to its caller
ConnectReject(c) ==
  /\ c \in 1..Len(conn)
  /\ conn[c].st = "connecting"
  /\ LET s1 == [State EXCEPT !.conn[c].st = "closed"]
     IN Commit(IF conn[c].by = 0 THEN attemptReconnect(s1)
               ELSE audioError(s1, conn[c].by))

\* a handler resumes after its await of the stop signal
ResumeAfterStop(f, lenient) ==
  /\ f \in 1..Len(frames)
  /\ frames[f].pc = "stop"
  /\ Commit(afterStop(State, f, lenient))

\* an upstream message arrives on an open connection
UpstreamMessage(c, msg) ==
  /\ c \in 1..Len(conn)
  /\ conn[c].st = "open"
  /\ msgs < MaxMsgs
  /\ Commit(onmessage([State EXCEPT !.msgs = @ + 1, !.sinceFrame = 0,
                                    !.sinceTraffic = 0], msg))

\* an open upstream connection fails: onerror runs, onclose follows
UpstreamError(c) ==
  /\ c \in 1..Len(conn)
  /\ conn[c].st = "open"
  /\ Commit(onerror([State EXCEPT !.conn[c].st = "closing"]))

\* an upstream connection has closed (by the service, after an error or
\* after close()): onclose runs
UpstreamClose(c) ==
  /\ c \in 1..Len(conn)
  /\ conn[c].st \in {"open", "closing"}
  /\ Commit(onclose([State EXCEPT !.conn[c].st = "closed"]))

\* a reconnect timer fires
ReconnectTimer ==
  /\ timers > 0
  /\ (isActive /\ ~HoldsOpen(State)) => Len(conn) < MaxConns
  /\ Commit(reconnectTimer([State EXCEPT !.timers = @ - 1]))

\* time passes, never beyond the idle timer's deadline
Tick ==
  /\ idleTimer # {}
  /\ \E left \in idleTimer :
       /\ left > 0
       /\ LET d == Min(TickMs, left)
          IN Commit([State EXCEPT !.idleTimer = {left - d},
                                  !.sinceFrame = Elapse(@, d),
                                  !.sinceTraffic = Elapse(@, d)])

\* the idle timer fires
IdleTimerFire ==
  /\ idleTimer = {0}
  /\ Commit(idleTimeout([State EXCEPT !.idleTimer = {}]))

\* clientWS.on("close"): the client channel has closed
ClientClose ==
  /\ clientWS # "CLOSED"
  /\ Commit(cleanupSession([State EXCEPT !.clientWS = "CLOSED",
                                         !.inbound = FALSE]))

\* clientWS.on("error"): the channel failed; its close event follows
ClientError ==
  /\ clientWS = "OPEN"
  /\ Commit(cleanupSession([State EXCEPT !.clientWS = "CLOSING",
                                         !.inbound = FALSE]))

\* process.on("SIGTERM"): the client's channel, when open, is closed with
\* 1001 (close() on a channel already closing does nothing); frames the
\* client sent before it sees the close still arrive
Sigterm ==
  /\ clientWS = "OPEN"
  /\ Commit([State EXCEPT !.clientWS = "CLOSING",
                          !.closeCalls = Append(@, 1001)])

RelayNext ==
  \/ \E kind \in {"audio", "interruption", "malformed"}, data \in ClientPayloads,
        lenient \in BOOLEAN :
       ClientMessage(kind, IF kind = "audio" THEN data ELSE <<>>, lenient)
  \/ \E c \in 1..MaxConns, lenient \in BOOLEAN : ConnectResolve(c, lenient)
  \/ \E c \in 1..MaxConns : ConnectReject(c)
  \/ \E f \in 1..MaxFrames, lenient \in BOOLEAN : ResumeAfterStop(f, lenient)
  \/ \E c \in 1..MaxConns, msg \in UpstreamMessages : UpstreamMessage(c, msg)
  \/ \E c \in 1..MaxConns : UpstreamError(c)
  \/ \E c \in 1..MaxConns : UpstreamClose(c)
  \/ ReconnectTimer
  \/ Tick
  \/ IdleTimerFire
  \/ ClientClose
  \/ ClientError
  \/ Sigterm

RelaySpec == Init /\ [][RelayNext]_vars

\* ------------------------------------------------ the playback engine
\* The scheduler's state as one record, as for the relay. Times are counted
\* in sample frames of the playback rate, so that a buffer of n samples lasts n.
Play ==
  [audioContext |-> audioContext, currentTime |-> currentTime,
   nextStartTime |-> nextStartTime, activeSources |-> activeSources,
   sources |-> sources, cursor |-> cursor, ctx |-> ctx, live |-> live,
   closing |-> closing, started |-> started]

PlayCommit(p) ==
  /\ audioContext' = p.audioContext
  /\ currentTime' = p.currentTime
  /\ nextStartTime' = p.nextStartTime
  /\ activeSources' = p.activeSources
  /\ sources' = p.sources
  /\ cursor' = p.cursor
  /\ ctx' = p.ctx
  /\ live' = p.live
  /\ closing' = p.closing
  /\ started' = p.started
  /\ UNCHANGED <<relayVars, pageVars>>

\* byteLength of the array buffer handed to queueAudio: empty, odd, one
\* sample, two samples
ChunkBytes == {0, 1, 2, 4}

\* A scheduler that chains nothing: every source starts at its arrival time.
queueAudioAtArrival(p, byteLength) ==
  IF p.audioContext # "running" \/ byteLength % 2 # 0 \/ byteLength = 0 THEN p
  ELSE [p EXCEPT
          !.sources = Append(@, [start |-> p.currentTime,
                                 duration |-> byteLength \div 2,
                                 at |-> p.currentTime, ctx |-> p.ctx,
                                 cursor |-> p.cursor, st |-> "scheduled",
                                 evt |-> FALSE]),
          !.nextStartTime = p.currentTime + byteLength \div 2,
          !.activeSources = @ \cup {Len(p.sources) + 1},
          !.cursor = "chained"]

\* queueAudio. new Int16Array throws on an odd byteLength before anything is
\* assigned; createBuffer throws on a length of 0 after nextStartTime was
\* raised to the clock. Both are caught and logged.
queueAudio(p, byteLength) ==
  IF p.audioContext # "running" THEN p
  ELSE IF byteLength % 2 # 0 THEN p
  ELSE LET length == byteLength \div 2
           q == [p EXCEPT !.nextStartTime = Max(p.nextStartTime, p.currentTime)]
           source == [start |-> q.nextStartTime, duration |-> length,
                      at |-> q.currentTime, ctx |-> q.ctx, cursor |-> q.cursor,
                      st |-> "scheduled", evt |-> FALSE]
       IN IF length = 0
          THEN [q EXCEPT !.cursor = IF @ = "reset" THEN "raised" ELSE @]
          ELSE [q EXCEPT !.sources = Append(@, source),
                         !.nextStartTime = @ + length,
                         !.activeSources = @ \cup {Len(q.sources) + 1},
                         !.cursor = "chained"]

\* source.stop() for every member of the set
StopEach(p) ==
  [i \in 1..Len(p.sources) |->
     IF i \in p.activeSources THEN [p.sources[i] EXCEPT !.st = "stopped"]
     ELSE p.sources[i]]

\* A stopAllAudio that leaves the scheduling cursor where it was.
stopAllAudioKeepCursor(p) ==
  [p EXCEPT !.sources = StopEach(p), !.activeSources = {}, !.cursor = "reset"]

\* A stopAllAudio that stops the sources and leaves them in the set.
stopAllAudioKeepSet(p) ==
  [p EXCEPT !.sources = StopEach(p), !.nextStartTime = 0, !.cursor = "reset"]

stopAllAudio(p) ==
  [p EXCEPT !.sources = StopEach(p), !.activeSources = {},
            !.nextStartTime = 0, !.cursor = "reset"]

\* the "ended" listener of source i
ended(p, i) ==
  [p EXCEPT !.activeSources = @ \ {i},
            !.sources[i].evt = TRUE,
            !.sources[i].st = IF @ = "scheduled" THEN "ended" ELSE @]

\* endSessionCleanup, as far as the playback engine goes: the context keeps
\* running until its close() is resolved.
endSessionCleanup(p) ==
  LET q == stopAllAudio(p)
  IN [q EXCEPT !.closing = IF q.audioContext # "null" THEN @ \cup {q.ctx} ELSE @,
               !.started = FALSE]

\* initAudioPipeline: a new audio context, whose clock starts at 0
initAudioPipeline(p) ==
  [p EXCEPT !.audioContext = "running", !.currentTime = 0, !.ctx = @ + 1,
            !.live = @ \cup {p.ctx + 1}, !.started = TRUE]

\* startSession, up to the audio pipeline
InitAudioPipeline ==
  /\ ~started
  /\ ctx < MaxContexts
  /\ PlayCommit(initAudioPipeline(Play))

\* the playback clock of the newest context advances while it is not closed
Advance ==
  /\ ctx \in live
  /\ currentTime < MaxClock
  /\ PlayCommit([Play EXCEPT !.currentTime = @ + 1])

\* an AUDIO frame: handleBinaryMessage calls queueAudio(data.slice(1))
QueueAudio(byteLength) ==
  /\ Len(sources) < MaxChunks
  /\ PlayCommit(queueAudio(Play, byteLength))

\* an INTERRUPTION frame: handleBinaryMessage calls stopAllAudio()
StopAllAudio ==
  /\ PlayCommit(stopAllAudio(Play))

\* The "ended" event of source i: its buffer was played to the end, or it was
\* stopped. The clock of an older context is not modelled: its sources end at
\* any time while that context is not closed.
Ended(i) ==
  /\ i \in 1..Len(sources)
  /\ ~sources[i].evt
  /\ sources[i].ctx \in live
  /\ \/ sources[i].st = "stopped"
     \/ /\ sources[i].st = "scheduled"
        /\ \/ sources[i].ctx # ctx
           \/ currentTime >= sources[i].start + sources[i].duration
  /\ PlayCommit(ended(Play, i))

\* session_timeout, a status "closed", or a failed start
EndSessionCleanup ==
  /\ ctx > 0
  /\ PlayCommit(endSessionCleanup(Play))

\* close() of context c is resolved: the context is closed and the callback
\* sets this.audioContext to null, whichever context it refers to by then.
CloseResolve(c) ==
  /\ c \in closing
  /\ PlayCommit([Play EXCEPT !.audioContext = "null", !.closing = @ \ {c},
                             !.live = @ \ {c}])

PlaybackNext ==
  \/ InitAudioPipeline
  \/ Advance
  \/ \E byteLength \in ChunkBytes : QueueAudio(byteLength)
  \/ StopAllAudio
  \/ \E i \in 1..MaxChunks : Ended(i)
  \/ EndSessionCleanup
  \/ \E c \in 1..MaxContexts : CloseResolve(c)

PlaybackSpec == Init /\ [][PlaybackNext]_vars

\* ------------------------------------------------------------ the page
\* The page (VoiceSession) as one record; its playback engine is the field
\* play. A step starts with endSession not called.
Page ==
  [state |-> state, webSocket |-> webSocket, sockets |-> sockets,
   reconnectTimers |-> reconnectTimers, localStream |-> localStream,
   inputNode |-> inputNode, mediaStreamSource |-> mediaStreamSource,
   pc |-> pc, lastFrame |-> lastFrame, userEnded |-> FALSE, play |-> Play]

PageCommit(g) ==
  /\ state' = g.state
  /\ webSocket' = g.webSocket
  /\ sockets' = g.sockets
  /\ reconnectTimers' = g.reconnectTimers
  /\ localStream' = g.localStream
  /\ inputNode' = g.inputNode
  /\ mediaStreamSource' = g.mediaStreamSource
  /\ pc' = g.pc
  /\ lastFrame' = g.lastFrame
  /\ userEnded' = g.userEnded
  /\ audioContext' = g.play.audioContext
  /\ currentTime' = g.play.currentTime
  /\ nextStartTime' = g.play.nextStartTime
  /\ activeSources' = g.play.activeSources
  /\ sources' = g.play.sources
  /\ cursor' = g.play.cursor
  /\ ctx' = g.play.ctx
  /\ live' = g.play.live
  /\ closing' = g.play.closing
  /\ started' = (g.state.isStarting \/ g.state.isActive)
  /\ UNCHANGED relayVars

\* A frame on the page's channel: binary with its bytes, or text with the
\* type and message of the JSON it holds ("garbage": a text that is no JSON).
Binary(bytes) == [kind |-> "binary", data |-> bytes, type |-> "", message |-> ""]
Text(type, message) ==
  [kind |-> "text", data |-> <<>>, type |-> type, message |-> message]
Garbage == [kind |-> "garbage", data |-> <<>>, type |-> "", message |-> ""]

\* the frames the relay sends
ServerFrames ==
  { Binary(<<1, 1, 2>>), Binary(<<2>>), Binary(<<3>>),
    Text("status", "AI session ready"),
    Text("error", "AI service error"),
    Text("session_timeout", "Session ended due to inactivity.") }

\* the frames the page's handlers tell apart
HandlerFrames ==
  ServerFrames \cup
  { Binary(<<>>), Binary(<<9>>), Text("status", "Session opened"),
    Text("status", "Session closed"), Text("note", ""), Garbage }

\* the words of a message text
Words(message) ==
  IF message = "AI session ready" THEN <<"AI", "session", "ready">>
  ELSE IF message = "Session opened" THEN <<"Session", "opened">>
  ELSE IF message = "Session closed" THEN <<"Session", "closed">>
  ELSE IF message = "AI service error" THEN <<"AI", "service", "error">>
  ELSE IF message = "Session ended due to inactivity."
    THEN <<"Session", "ended", "due", "to", "inactivity.">>
  ELSE <<>>

\* message.includes(word)
Includes(message, word) ==
  \E i \in 1..Len(Words(message)) : Words(message)[i] = word

Idle ==
  [isActive |-> FALSE, isLoading |-> FALSE, isStarting |-> FALSE,
   audioStreamEnded |-> FALSE]

\* endSessionCleanup, the whole of it: playback, microphone, audio nodes,
\* audio context, state. The channel is not touched.
sessionCleanup(g) ==
  [g EXCEPT !.play = endSessionCleanup(g.play),
            !.localStream = "null", !.inputNode = "null",
            !.mediaStreamSource = "null", !.state = Idle]

\* initWebSocket: a new WebSocket in this.webSocket, with its onopen, onerror
\* and onclose handlers
initWebSocket(g, awaited) ==
  [g EXCEPT !.sockets = Append(@, [st |-> "CONNECTING", awaited |-> awaited,
                                   settled |-> FALSE, want |-> 0]),
            !.webSocket = Len(g.sockets) + 1]

\* endSession
endSession(g) ==
  LET h == [g EXCEPT !.userEnded = TRUE]
  IN IF h.webSocket # 0 /\ h.sockets[h.webSocket].st = "OPEN"
     THEN [h EXCEPT !.sockets[h.webSocket].st = "CLOSING",
                    !.sockets[h.webSocket].want = 1000]
     ELSE sessionCleanup(h)

\* startSession, up to its await of getUserMedia
startSession(g) ==
  IF g.state.isStarting \/ g.state.isActive THEN g
  ELSE [g EXCEPT !.state.isStarting = TRUE, !.state.isLoading = TRUE,
                 !.pc = "media"]

\* the click listener of the toggle button
click(g) ==
  IF g.state.isLoading THEN g
  ELSE IF g.state.isActive THEN endSession(g)
  ELSE startSession(g)

\* handleStatusMessage
handleStatusMessage(g, message) ==
  IF Includes(message, "opened")
  THEN [g EXCEPT !.state.isActive = TRUE, !.state.isLoading = FALSE,
                 !.state.isStarting = FALSE]
  ELSE IF Includes(message, "closed")
    THEN IF g.state.isActive THEN sessionCleanup(g) ELSE g
  ELSE g

\* handleJSONMessage: JSON.parse throws on a text that is no JSON
handleJSONMessage(g, frame) ==
  IF frame.kind = "garbage" THEN g
  ELSE IF frame.type = "status" THEN handleStatusMessage(g, frame.message)
  ELSE IF frame.type = "error" THEN endSession(g)
  ELSE IF frame.type = "session_timeout" THEN sessionCleanup(g)
  ELSE g

\* handleBinaryMessage: getUint8(0) throws on an empty frame
handleBinaryMessage(g, data) ==
  IF Len(data) = 0 THEN g
  ELSE IF data[1] = 1
    THEN [g EXCEPT !.play = queueAudio(g.play, Len(SubSeq(data, 2, Len(data))))]
  ELSE IF data[1] = 2 THEN [g EXCEPT !.state.audioStreamEnded = TRUE]
  ELSE IF data[1] = 3 THEN [g EXCEPT !.play = stopAllAudio(g.play)]
  ELSE g

\* what the page does to a frame when it dispatches it
dispatch(g, frame) ==
  IF frame.kind = "binary" THEN handleBinaryMessage(g, frame.data)
  ELSE handleJSONMessage(g, frame)

\* a socket's onclose handler that reconnects after every closure
wsOncloseAlways(g, code) ==
  [g EXCEPT !.reconnectTimers = Append(@, RECONNECT_MS)]

\* a socket's onclose handler
wsOnclose(g, code) ==
  IF code # 1000 THEN [g EXCEPT !.reconnectTimers = Append(@, RECONNECT_MS)]
  ELSE g

\* startSession's catch block
startFailed(g) == sessionCleanup(g)

\* the toggle button is clicked
Click ==
  /\ (~state.isLoading /\ ~state.isActive /\ ~state.isStarting) => pc = "idle"
  /\ PageCommit(click(Page))

\* getUserMedia resolves: the microphone stream, a new audio context
MediaResolve ==
  /\ pc = "media"
  /\ ctx < MaxContexts
  /\ PageCommit([Page EXCEPT !.localStream = "live",
                             !.play = initAudioPipeline(Page.play),
                             !.pc = "module"])

\* getUserMedia rejects: initAudioPipeline rethrows to startSession
MediaReject ==
  /\ pc = "media"
  /\ PageCommit(startFailed([Page EXCEPT !.pc = "idle"]))

\* addModule resolves: the audio nodes are connected and startSession goes
\* on to initWebSocket
ModuleResolve ==
  /\ pc = "module"
  /\ Len(sockets) < MaxSockets
  /\ PageCommit(initWebSocket([Page EXCEPT !.inputNode = "connected",
                                           !.mediaStreamSource = "connected",
                                           !.pc = "idle"], TRUE))

\* there is no audioWorklet, or addModule rejects
ModuleReject ==
  /\ pc = "module"
  /\ PageCommit(startFailed([Page EXCEPT !.pc = "idle"]))

\* a socket's onopen handler: the promise of initWebSocket is resolved
SocketOpen(k) ==
  /\ k \in 1..Len(sockets)
  /\ sockets[k].st = "CONNECTING"
  /\ PageCommit([Page EXCEPT !.sockets[k].st = "OPEN",
                             !.sockets[k].settled = TRUE])

\* a socket's onerror handler: the promise is rejected, into startSession's
\* catch block when startSession awaits it; the close event follows
SocketError(k) ==
  /\ k \in 1..Len(sockets)
  /\ sockets[k].st \in {"CONNECTING", "OPEN"}
  /\ LET g == [Page EXCEPT !.sockets[k].st = "CLOSING",
                           !.sockets[k].settled = TRUE]
     IN PageCommit(IF sockets[k].awaited /\ ~sockets[k].settled
                   THEN startFailed(g) ELSE g)

\* the close codes a close event can carry: after the page's close(1000) the
\* code it asked for, or 1006 when the connection is lost first; 1006 after
\* an error; otherwise the relay's 1000 or 1001, or 1006
CloseCodes(k) ==
  IF sockets[k].want = 1000 THEN {1000, 1006}
  ELSE IF sockets[k].st = "CLOSING" THEN {1006}
  ELSE {1000, 1001, 1006}

\* a socket's close event
SocketClose(k, code) ==
  /\ k \in 1..Len(sockets)
  /\ sockets[k].st \in {"OPEN", "CLOSING"}
  /\ code \in CloseCodes(k)
  /\ PageCommit(wsOnclose([Page EXCEPT !.sockets[k].st = "CLOSED"], code))

\* A socket's message event. initWebSocket installs onopen, onerror and
\* onclose and no message listener: the frame is received and nothing runs.
SocketMessage(k, frame) ==
  /\ k \in 1..Len(sockets)
  /\ sockets[k].st = "OPEN"
  /\ PageCommit([Page EXCEPT !.lastFrame =
       [socket |-> k,
        what |-> IF frame.kind = "text" THEN frame.type ELSE frame.kind]])

\* the setTimeout callback of onclose: initWebSocket, its promise dropped
ReconnectFire ==
  /\ reconnectTimers # <<>>
  /\ Len(sockets) < MaxSockets
  /\ PageCommit(initWebSocket([Page EXCEPT !.reconnectTimers = Tail(@)], FALSE))

\* A call of handleBinaryMessage or handleJSONMessage with a frame. No event
\* of the page makes this call.
Handle(frame) ==
  /\ (frame.kind = "binary" /\ Len(frame.data) > 1) => Len(sources) < MaxPageChunks
  /\ PageCommit(dispatch(Page, frame))

\* what goes on without the user and without the relay
PageInternal ==
  \/ MediaResolve
  \/ MediaReject
  \/ ModuleResolve
  \/ ModuleReject
  \/ \E k \in 1..MaxSockets : SocketOpen(k)
  \/ \E k \in 1..MaxSockets : SocketError(k)
  \/ \E k \in 1..MaxSockets, code \in {1000, 1001, 1006} : SocketClose(k, code)
  \/ ReconnectFire
  \/ \E c \in 1..MaxContexts : CloseResolve(c)

PageNext ==
  \/ Click
  \/ MediaResolve
  \/ MediaReject
  \/ ModuleResolve
  \/ ModuleReject
  \/ \E k \in 1..MaxSockets : SocketOpen(k)
  \/ \E k \in 1..MaxSockets : SocketError(k)
  \/ \E k \in 1..MaxSockets, code \in {1000, 1001, 1006} : SocketClose(k, code)
  \/ \E k \in 1..MaxSockets, frame \in ServerFrames : SocketMessage(k, frame)
  \/ ReconnectFire
  \/ \E frame \in HandlerFrames : Handle(frame)
  \/ \E c \in 1..MaxContexts : CloseResolve(c)

PageSpec == Init /\ [][PageNext]_vars

\* The page with what it starts itself brought to an end: a promise that is
\* pending settles, a socket that is closing closes, a timer that is pending
\* fires. Nothing is assumed of the user or of the relay.
PageLiveSpec == PageSpec /\ WF_vars(PageInternal)

\* ------------------------------------------------ claims: the relay
Frames == 1..Len(frames)
Count(seq, e) == Len(SelectSeq(seq, LAMBDA x : x = e))
\* the place of the first e in seq, Len(seq) + 1 when there is none
First(seq, e) ==
  IF \E i \in 1..Len(seq) : seq[i] = e
  THEN CHOOSE i \in 1..Len(seq) : seq[i] = e /\ \A j \in 1..(i - 1) : seq[j] # e
  ELSE Len(seq) + 1
IsPrefix(a, b) == Len(a) <= Len(b) /\ \A i \in 1..Len(a) : a[i] = b[i]
\* what a handler did for a barge-in, its error reports left out
BargeSteps(f) ==
  SelectSeq(frames[f].did, LAMBDA x : x \in {"0x03", "stop", "ready", "audio"})

\* C1 as stated: a client audio frame whose handler finds the session
\* speaking has exactly one 0x03 frame sent to the client, before the frame's
\* audio is forwarded upstream.
C1_Stated ==
  \A f \in Frames :
    frames[f].barge =>
      /\ Count(frames[f].did, "0x03") = 1
      /\ First(frames[f].did, "0x03") < First(frames[f].did, "audio")

\* C1 amended: a client audio frame whose handler finds the session speaking
\* has exactly one 0x03 frame sent to the client when the client channel is
\* open at that moment, and none when the channel is already closing; the
\* 0x03 frame is the first thing the handler sends, before the stop signal and
\* before the frame's audio.
C1_BargeInOne03 ==
  \A f \in Frames :
    frames[f].barge =>
      IF frames[f].chan = "OPEN"
      THEN /\ Count(frames[f].did, "0x03") = 1
           /\ frames[f].did[1] = "0x03"
           /\ First(frames[f].did, "0x03") < First(frames[f].did, "audio")
      ELSE Count(frames[f].did, "0x03") = 0

C1_Witness ==
  \E f \in Frames :
    /\ frames[f].barge /\ frames[f].chan = "OPEN"
    /\ frames[f].did = <<"0x03", "stop", "ready", "audio">>

\* C2 as stated: for a barge-in the handler sends 0x03 to the client, then the
\* stop signal upstream, then the session is READY, then the frame's audio
\* goes upstream: what the handler did is always a beginning of that order.
C2_Stated ==
  \A f \in Frames :
    frames[f].barge =>
      IsPrefix(BargeSteps(f), <<"0x03", "stop", "ready", "audio">>)

\* C2 amended: the order is 0x03 (when the client channel is open at that
\* moment; on a closing channel no 0x03 is sent), stop signal, READY, the
\* frame's audio; the audio is never sent before the stop signal, and the
\* session is READY when the audio is sent.
C2_BargeInOrder ==
  \A f \in Frames :
    frames[f].barge =>
      IsPrefix(BargeSteps(f),
               IF frames[f].chan = "OPEN"
               THEN <<"0x03", "stop", "ready", "audio">>
               ELSE <<"stop", "ready", "audio">>)

C2_Witness ==
  \E f \in Frames :
    /\ frames[f].barge /\ frames[f].chan = "OPEN" /\ frames[f].pc = "done"
    /\ BargeSteps(f) = <<"0x03", "stop", "ready", "audio">>
    /\ ~isAISpeaking

\* C3 as stated: never more than MAX_RECONNECT_ATTEMPTS reopen attempts
\* without a successful reopen in between, and at most one "Connection lost"
\* error message to the client.
C3_Stated ==
  /\ retries <= MAX_RECONNECT_ATTEMPTS
  /\ notices.lost <= 1

\* C4 as stated: a step of an upstream callback or of the reconnection
\* controller sends the client an `error` message only when the reconnection
\* attempts are used up.
C4_Stated ==
  [][(\E i \in 1..Len(wire') : wire'[i].type = "error" /\ wire'[i].by = 0)
       => reconnectAttempts >= MAX_RECONNECT_ATTEMPTS]_vars

\* C5: cleanup is idempotent: on a session already cleaned up it changes
\* nothing, a second invocation leaves the state of the first, and each
\* effect (cancel the idle timer, close the upstream connection, close the
\* client channel) is executed at most once.
C5_CleanupIdempotent ==
  /\ cleanupSession(cleanupSession(State)) = cleanupSession(State)
  /\ ~isActive => cleanupSession(State) = State
  /\ fx.cancel <= 1 /\ fx.upstream <= 1 /\ fx.client <= 1
  /\ Count(closeCalls, 1000) <= 1

\* the idle timer ran cleanup, closing the client channel, and the channel's
\* close event invoked it again
C5_Witness ==
  /\ ~isActive /\ notices.timeout = 1 /\ closeCalls = <<1000>>
  /\ clientWS = "CLOSED" /\ fx.cancel = 1 /\ fx.client = 1

\* C6 as stated: in an active session the idle deadline is one full window
\* after the last processed frame (client message or upstream message).
C6_Stated ==
  isActive => idleTimer = {SESSION_IDLE_MS - sinceFrame}

\* C6 amended: in an active session the idle deadline is one full window
\* after the last processed client message, upstream message or upstream-ready
\* (onopen) callback, or after the session's start when there was none; so
\* the timeout fires exactly when none of these was processed for a full
\* window, and never earlier than a full window after the last frame.
C6_IdleDeadline ==
  isActive =>
    /\ idleTimer = {SESSION_IDLE_MS - sinceTraffic}
    /\ sinceTraffic <= sinceFrame

\* the timeout fired a full window after the last of two processed frames
C6_Witness ==
  /\ ~isActive /\ notices.timeout = 1 /\ Len(frames) > 0 /\ msgs > 0
  /\ sinceFrame = SESSION_IDLE_MS

TimeoutMessage == Json("session_timeout", "Session ended due to inactivity.", 0)

\* C7 as stated: when the idle timer fires on an active session the client is
\* sent one session_timeout message and cleanup then closes the client channel
\* with code 1000.
C7_Stated ==
  [][(IdleTimerFire /\ isActive) =>
       /\ wire' = <<TimeoutMessage>>
       /\ notices'.timeout = 1
       /\ closeCalls' = Append(closeCalls, 1000)]_vars

\* C7 amended: when the idle timer fires on an active session whose client
\* channel is open, the client is sent exactly one session_timeout message and
\* cleanup then closes the channel with code 1000; when the channel is already
\* closing, no message is sent and the channel is not closed again; in both
\* cases full cleanup is performed.
C7_TimeoutThenCleanup ==
  [][(IdleTimerFire /\ isActive) =>
       /\ ~isActive' /\ geminiSession' = 0 /\ idleTimer' = {}
       /\ IF clientWS = "OPEN"
          THEN /\ wire' = <<TimeoutMessage>>
               /\ notices'.timeout = 1
               /\ closeCalls' = Append(closeCalls, 1000)
               /\ clientWS' = "CLOSING"
          ELSE /\ wire' = <<>>
               /\ notices' = notices
               /\ closeCalls' = closeCalls
               /\ clientWS' = clientWS]_vars

C7_Witness ==
  /\ ~isActive /\ notices.timeout = 1 /\ closeCalls = <<1000>>
  /\ clientWS = "CLOSING" /\ Len(frames) = MaxFrames

\* ------------------------------------- claims: the relay, continued
\* C12 as stated: the SIGTERM handler closes an open client channel with the
\* normal-closure code 1000.
C12_Stated ==
  [][Sigterm => closeCalls' = Append(closeCalls, 1000)]_vars

AudioMessage == [data |-> <<0, 16, 8>>, turnComplete |-> FALSE]
EmptyMessage == [data |-> <<5>>, turnComplete |-> FALSE]
TurnComplete == [data |-> <<>>, turnComplete |-> TRUE]
Upstream(msg) == \E c \in 1..MaxConns : UpstreamMessage(c, msg)

\* C14 as stated: an upstream audio chunk makes the session SPEAKING and has
\* the 0x01 frame with its payload sent to the client; the turn-complete that
\* follows makes the session READY and has the bare 0x02 frame sent.
C14_Stated ==
  [][/\ Upstream(AudioMessage) =>
          /\ isAISpeaking'
          /\ wire' = <<Bin(<<1>> \o B64Decode(AudioMessage.data), 0)>>
     /\ Upstream(TurnComplete) =>
          /\ ~isAISpeaking'
          /\ wire' = <<Bin(<<2>>, 0)>>]_vars

\* C14 amended: an upstream audio chunk makes the session SPEAKING and the
\* turn-complete that follows makes it READY; each callback sends its frame
\* (0x01 with the decoded payload, bare 0x02) within its own step, so in the
\* order of the callbacks, when the client channel is open, and sends nothing
\* when the channel is closing or closed.
C14_ForwardInOrder ==
  [][/\ Upstream(AudioMessage) =>
          /\ isAISpeaking'
          /\ wire' = IF clientWS = "OPEN"
                     THEN <<Bin(<<1>> \o B64Decode(AudioMessage.data), 0)>>
                     ELSE <<>>
     /\ Upstream(TurnComplete) =>
          /\ ~isAISpeaking'
          /\ wire' = IF clientWS = "OPEN" THEN <<Bin(<<2>>, 0)>> ELSE <<>>
     /\ (\E msg \in UpstreamMessages : Upstream(msg)) =>
          /\ Len(wire') <= 1
          /\ \A i \in 1..Len(wire') : wire'[i].to = "client"]_vars

\* the second of two upstream callbacks was a turn-complete, forwarded to an
\* open client channel
C14_Witness ==
  /\ msgs = 2 /\ wire = <<Bin(<<2>>, 0)>> /\ ~isAISpeaking
  /\ clientWS = "OPEN" /\ isActive /\ HoldsOpen(State)

Interruption == \E lenient \in BOOLEAN : ClientMessage("interruption", <<>>, lenient)
Resumed(kind) ==
  \E f \in 1..MaxFrames, lenient \in BOOLEAN :
    ResumeAfterStop(f, lenient) /\ frames[f].kind = kind

\* C15 as stated: an `interruption` message handled while the session has an
\* upstream connection has the 0x03 frame sent to the client, then the stop
\* signal sent upstream, and the handler ends with the session READY, without
\* sending audio upstream.
C15_Stated ==
  [][/\ (Interruption /\ isActive /\ geminiSession # 0) =>
          /\ wire' = <<Bin(<<3>>, Len(frames')),
                       Realtime("stop", <<>>, Len(frames'), geminiSession)>>
          /\ frames'[Len(frames')].pc = "stop"
     /\ Resumed("interruption") => (~isAISpeaking' /\ wire' = <<>>)]_vars

\* C15 amended: the 0x03 frame is sent when the client channel is open (none
\* on a closing channel); the stop signal follows when the upstream connection
\* is open; the handler then ends with the session READY. When the upstream
\* connection is not open the stop signal is not sent, and the speaking flag
\* is left as it was if the call throws. No audio goes upstream.
C15_InterruptionAsBargeIn ==
  [][/\ (Interruption /\ isActive /\ geminiSession # 0) =>
          LET f == Len(frames')
              first == IF clientWS = "OPEN" THEN <<Bin(<<3>>, f)>> ELSE <<>>
          IN IF conn[geminiSession].st = "open"
             THEN /\ wire' = first \o <<Realtime("stop", <<>>, f, geminiSession)>>
                  /\ frames'[f].pc = "stop"
             ELSE /\ wire' = first
                  /\ isAISpeaking' = isAISpeaking
     /\ Resumed("interruption") => (~isAISpeaking' /\ wire' = <<>>)]_vars

C15_Witness ==
  \E f \in Frames :
    /\ frames[f].kind = "interruption" /\ frames[f].pc = "done"
    /\ frames[f].did = <<"0x03", "stop", "ready">>
    /\ msgs > 0 /\ ~isAISpeaking

Malformed == \E lenient \in BOOLEAN : ClientMessage("malformed", <<>>, lenient)

\* C16: a client text frame that cannot be parsed is dropped: the session
\* stays active, its upstream reference and connections, its speaking flag
\* and its reconnect counter are unchanged, and nothing is sent.
C16_MalformedDropped ==
  [][(Malformed /\ isActive) =>
       /\ isActive' /\ geminiSession' = geminiSession /\ conn' = conn
       /\ isAISpeaking' = isAISpeaking
       /\ reconnectAttempts' = reconnectAttempts /\ timers' = timers
       /\ clientWS' = clientWS /\ closeCalls' = closeCalls
       /\ wire' = <<>>
       /\ frames'[Len(frames')].pc = "done"]_vars

\* after a malformed frame, an audio frame was forwarded upstream
C16_Witness ==
  /\ Len(frames) = 2 /\ frames[1].kind = "malformed" /\ frames[1].did = <<>>
  /\ frames[2].kind = "audio" /\ frames[2].did = <<"audio">> /\ isActive

\* C17 as stated: an upstream audio callback whose payload decodes to nothing
\* sends nothing and leaves the speaking flag as it was.
C17_Stated ==
  [][(B64Decode(EmptyMessage.data) = <<>> /\ Upstream(EmptyMessage)) =>
       /\ wire' = <<>>
       /\ isAISpeaking' = isAISpeaking]_vars

Pending == {c \in 1..Len(conn) : conn[c].st \in {"connecting", "open"}}

\* C18 as stated: at most one upstream connection is open or being opened,
\* and an open connection is the one the session refers to.
C18_Stated ==
  /\ Cardinality(Pending) <= 1
  /\ \A c \in 1..Len(conn) : conn[c].st = "open" => geminiSession = c

\* C19 as stated: once cleanupSession has run, the upstream reference is
\* null, no upstream connection is open and no idle timer is pending.
C19_Stated ==
  ~isActive =>
    /\ geminiSession = 0
    /\ idleTimer = {}
    /\ \A c \in 1..Len(conn) : conn[c].st # "open"

\* --------------------------------------------- claims: the playback
Sources == 1..Len(sources)
End(i) == sources[i].start + sources[i].duration
\* source i was started after source i-1 on the same audio context with no
\* stopAllAudio in between
Chained(i) ==
  i > 1 /\ sources[i].cursor = "chained" /\ sources[i].ctx = sources[i - 1].ctx

\* C8 as stated: with no stopAll in between, the start times are
\* non-decreasing and each chunk starts at the previous chunk's start plus
\* the previous chunk's duration.
C8_Stated ==
  \A i \in Sources :
    Chained(i) => /\ sources[i - 1].start <= sources[i].start
                  /\ sources[i].start = End(i - 1)

\* C8 amended: with no stopAll in between, the start times are
\* non-decreasing and each chunk starts at the later of the previous chunk's
\* end and the clock time of its own enqueue: chunks never overlap, and there
\* is no gap exactly when the chunk is enqueued before the previous one ends.
C8_GaplessUnlessLate ==
  \A i \in Sources :
    Chained(i) => /\ sources[i - 1].at <= sources[i].at
                  /\ sources[i - 1].start <= sources[i].start
                  /\ sources[i].start = Max(End(i - 1), sources[i].at)
                  /\ sources[i].start >= End(i - 1)
                  /\ (sources[i].start = End(i - 1)) <=> (sources[i].at <= End(i - 1))

C8_Witness ==
  \E i, j \in Sources :
    /\ Chained(i) /\ sources[i - 1].at < sources[i].at
    /\ sources[i].at < End(i - 1) /\ sources[i].start = End(i - 1)
    /\ Chained(j) /\ sources[j].at > End(j - 1) /\ sources[j].start = sources[j].at

\* C9: a chunk enqueued right after a stopAll starts exactly at the clock
\* time of its enqueue, whatever was scheduled before the stop.
C9_StopThenEnqueueStartsNow ==
  \A i \in Sources :
    sources[i].cursor = "reset" => sources[i].start = sources[i].at

C9_Witness ==
  \E i \in Sources :
    /\ i > 1 /\ sources[i].cursor = "reset" /\ sources[i].ctx = sources[i - 1].ctx
    /\ End(i - 1) > sources[i].at
    /\ sources[i].at > 0 /\ sources[i].start = sources[i].at

\* C10: at all times the Active Source Set holds exactly the sources that
\* were started and have neither ended nor been stopped; a stopAll stops every
\* source that was in the set and leaves the set empty, with no source still
\* scheduled.
C10_ActiveSourceSet ==
  /\ [](activeSources = {i \in Sources : sources[i].st = "scheduled"})
  /\ [][(StopAllAudio \/ EndSessionCleanup) =>
          /\ activeSources' = {}
          /\ \A i \in activeSources : sources'[i].st = "stopped"
          /\ \A i \in 1..Len(sources') : sources'[i].st # "scheduled"]_vars

C10_Witness ==
  /\ cursor = "reset" /\ activeSources = {}
  /\ \E i, j, k \in Sources :
       /\ sources[i].st = "ended" /\ sources[j].st = "stopped"
       /\ sources[k].st = "stopped" /\ j # k
       /\ sources[j].at < sources[k].at

\* ------------------------------------------------- claims: the page
\* the page is as g says, what the model only keeps for the record left out
PageIs(g) ==
  /\ state' = g.state /\ webSocket' = g.webSocket /\ sockets' = g.sockets
  /\ reconnectTimers' = g.reconnectTimers /\ localStream' = g.localStream
  /\ inputNode' = g.inputNode /\ mediaStreamSource' = g.mediaStreamSource
  /\ activeSources' = g.play.activeSources /\ sources' = g.play.sources
  /\ nextStartTime' = g.play.nextStartTime /\ closing' = g.play.closing

\* C11 as stated: a frame that a message event of the page's channel
\* delivers is dispatched: the page is then as handleBinaryMessage (binary
\* frame) or handleJSONMessage (text frame) leaves it.
C11_Stated ==
  [][\A k \in 1..MaxSockets, frame \in ServerFrames :
       SocketMessage(k, frame) => PageIs(dispatch(Page, frame))]_vars

\* C13: a close event with a code other than 1000 schedules exactly one
\* reconnect, RECONNECT_MS later, and one with code 1000 schedules none;
\* nothing else schedules one; the reconnect is one initWebSocket: one new
\* channel, which becomes the page's channel; how many went before plays no
\* part.
C13_ReconnectOnAbnormalClose ==
  [][/\ \A k \in 1..MaxSockets, code \in {1000, 1001, 1006} :
          SocketClose(k, code) =>
            /\ reconnectTimers' = IF code # 1000
                                  THEN Append(reconnectTimers, RECONNECT_MS)
                                  ELSE reconnectTimers
            /\ Len(sockets') = Len(sockets)
     /\ Len(reconnectTimers') > Len(reconnectTimers) =>
          \E k \in 1..MaxSockets, code \in {1001, 1006} : SocketClose(k, code)
     /\ ReconnectFire =>
          /\ reconnectTimers' = Tail(reconnectTimers)
          /\ Len(sockets') = Len(sockets) + 1
          /\ webSocket' = Len(sockets')
          /\ sockets'[webSocket'].st = "CONNECTING"
          /\ \A k \in 1..Len(sockets) : sockets'[k] = sockets[k]]_vars

\* two abnormal closures in a row, each followed by its reconnect
C13_Witness ==
  /\ Len(sockets) = 3
  /\ sockets[1].st = "CLOSED" /\ sockets[2].st = "CLOSED"
  /\ ~sockets[2].awaited /\ ~sockets[3].awaited
  /\ webSocket = 3 /\ reconnectTimers = <<>>

\* the session is over for the page: idle state, nothing playing, microphone
\* and audio nodes released
Inactive ==
  /\ state = Idle
  /\ activeSources = {}
  /\ localStream = "null" /\ inputNode = "null" /\ mediaStreamSource = "null"

\* C20 as stated: after a call of endSession the page eventually is inactive.
C20_Stated == userEnded ~> Inactive

\* startSession ran to its end and nothing has cleaned up since: the audio
\* pipeline is there and the channel that startSession awaited was opened
\* and is the page's channel
StartSucceeded ==
  /\ pc = "idle" /\ state.isStarting
  /\ localStream = "live" /\ inputNode = "connected"
  /\ webSocket # 0
  /\ sockets[webSocket].awaited /\ sockets[webSocket].settled

\* the relay's status message "AI session ready" (its upstream onopen) was
\* the last frame delivered, on the page's channel
ReadyDelivered ==
  /\ lastFrame.socket = webSocket
  /\ lastFrame.what = "status"

Active == state.isActive /\ ~state.isLoading /\ ~state.isStarting

\* C21 as stated: once startSession has succeeded and the relay's
\* upstream-ready status message has been delivered, the page eventually is
\* active and does not stay in the loading state (a session that is cleaned
\* up first has left the loading state too).
C21_Stated == (StartSucceeded /\ ReadyDelivered) ~> (Active \/ ~state.isLoading)

\* endSessionCleanup has run and no startSession has been called since: the
\* state is the idle one and no startSession is on its way, its await of
\* the channel included
CleanedUp ==
  /\ state = Idle /\ pc = "idle"
  /\ \A k \in 1..Len(sockets) : sockets[k].awaited => sockets[k].settled

\* C22 as stated: while the session is cleaned up, no channel of the page is
\* open or being opened and no reconnect is pending.
C22_Stated ==
  CleanedUp =>
    /\ \A k \in 1..Len(sockets) : sockets[k].st \notin {"CONNECTING", "OPEN"}
    /\ reconnectTimers = <<>>

====
